---- MODULE Spec2Model ----
(***************************************************************************)
(* Model of the daily-return pipeline of analisis_riesgo_rendimiento_nvda:  *)
(*   etl_yfinance_postgres.py  extract -> transform -> load (PostgreSQL)    *)
(*   etl_to_csv.py             extract -> transform -> save (CSV)           *)
(*   analysis_and_report.py    read CSV -> statistics -> report             *)
(*                                                                         *)
(* Floating point values are modelled exactly as rationals <<n, d>> with    *)
(* d > 0 in lowest terms; NaN is <<0, 0>>, +inf is <<1, 0>>, -inf <<-1, 0>>.*)
(* Standard deviations are kept squared (as variances), correlations as     *)
(* their three sums of squares, so no square root is ever approximated.     *)
(***************************************************************************)
EXTENDS Integers, Sequences, FiniteSets, TLC

VARIABLES
    program,            \* which script runs: "etl_postgres", "etl_csv", "analysis"
    pc,                 \* position in the script's main()
    runs,               \* number of times main() was started
    tickers,            \* args.tickers
    db_password,        \* TRUE iff args.db_password is a non-empty string
    data,               \* main's `data` (result of extract_data)
    transformed_data,   \* main's `transformed_data` (result of transform_data)
    calls,              \* the functions main() has invoked in this run, in order
    tableExists,        \* the PostgreSQL table exists (committed)
    table,              \* committed rows of the PostgreSQL table
    txTable,            \* rows as seen inside load_data's open transaction
    tableAtCall,        \* committed rows when load_data was entered
    outcome,            \* what the sink step printed last: "", "completed", "error"
    csvFile,            \* rows of rendimientos_diarios.csv ([exists, rows])
    df,                 \* analysis: the long DataFrame read from the CSV
    df_pivot,           \* analysis: df.pivot(date x ticker)
    results             \* analysis: the values returned by the calculate_* calls

vars == <<program, pc, runs, tickers, db_password, data, transformed_data, calls,
          tableExists, table, txTable, tableAtCall, outcome, csvFile, df, df_pivot, results>>

etlVars == <<tickers, db_password, data, transformed_data, calls,
             tableExists, table, txTable, tableAtCall, outcome>>

analysisVars == <<df, df_pivot, results>>

----------------------------------------------------------------------------
(* Bounds of the model *)

\* number of trading dates a download can hold
NumDates == 2
\* number of dates on the date axis of a CSV given to the analysis
CsvDates == 3
\* how many times a script is run against the same store
MaxRuns == 2
\* rolling window of main(), window=30 in the code, scaled to the CSV's date axis
RollingWindow == 2

\* trading days per year
TradingDays == 252

Universe == <<"NVDA", "QQQ", "AAPL">>

----------------------------------------------------------------------------
(* Floating point values *)

NaN == <<0, 0>>
PosInf == <<1, 0>>
NegInf == <<-1, 0>>
\* the marker of a raised exception
Raised == <<0, -1>>

IsNaN(x) == x = NaN
IsFinite(x) == x[2] > 0
IsInf(x) == x = PosInf \/ x = NegInf

Abs(x) == IF x < 0 THEN -x ELSE x

RECURSIVE GCD(_, _)
GCD(a, b) == IF b = 0 THEN a ELSE GCD(b, a % b)

Rat(n, d) ==
    LET g == GCD(Abs(n), Abs(d))
        s == IF d < 0 THEN -1 ELSE 1
    IN  <<(s * n) \div g, (s * d) \div g>>

Int2Float(n) == <<n, 1>>

FAdd(x, y) ==
    IF x = Raised \/ y = Raised THEN Raised
    ELSE IF ~IsFinite(x) \/ ~IsFinite(y) THEN NaN
    ELSE Rat(x[1] * y[2] + y[1] * x[2], x[2] * y[2])

FSub(x, y) ==
    IF x = Raised \/ y = Raised THEN Raised
    ELSE IF ~IsFinite(x) \/ ~IsFinite(y) THEN NaN
    ELSE Rat(x[1] * y[2] - y[1] * x[2], x[2] * y[2])

FMul(x, y) ==
    IF x = Raised \/ y = Raised THEN Raised
    ELSE IF ~IsFinite(x) \/ ~IsFinite(y) THEN NaN
    ELSE Rat(x[1] * y[1], x[2] * y[2])

\* a Python scalar division: raises ZeroDivisionError on a zero divisor
PyDiv(x, y) ==
    IF x = Raised \/ y = Raised THEN Raised
    ELSE IF ~IsFinite(x) \/ ~IsFinite(y) THEN NaN
    ELSE IF y[1] = 0 THEN Raised
    ELSE Rat(x[1] * y[2], x[2] * y[1])

\* numpy / pandas element-wise division: x/0 is +-inf, 0/0 is NaN, nothing raises
FDiv(x, y) ==
    IF x = Raised \/ y = Raised THEN Raised
    ELSE IF ~IsFinite(x) \/ ~IsFinite(y) THEN NaN
    ELSE IF y[1] = 0
         THEN (IF x[1] = 0 THEN NaN ELSE IF x[1] > 0 THEN PosInf ELSE NegInf)
    ELSE Rat(x[1] * y[2], x[2] * y[1])

FLess(x, y) == x[1] * y[2] < y[1] * x[2]

----------------------------------------------------------------------------
(* Sequences *)

Range(s) == {s[i] : i \in 1..Len(s)}

RECURSIVE Flatten(_)
Flatten(ss) == IF ss = <<>> THEN <<>> ELSE Head(ss) \o Flatten(Tail(ss))

\* the subsequences of s (order kept)
RECURSIVE SubSeqs(_)
SubSeqs(s) ==
    IF s = <<>> THEN {<<>>}
    ELSE LET rest == SubSeqs(Tail(s))
         IN  rest \cup {<<Head(s)>> \o r : r \in rest}

None == [none |-> TRUE]
Some(v) == [none |-> FALSE, v |-> v]

----------------------------------------------------------------------------
(* The price table: yf.download's result *)

Dates(n) == [i \in 1..n |-> i]

\* the quotes of a download over n dates: flat, or rising by one a day; the
\* tickers of one table are quoted alike and differ in their first date
Quotes(n) == {[d \in 1..n |-> 1], [d \in 1..n |-> d]}

\* one Close column over n dates quoted at `quote`: its prices from `first` on,
\* missing before (first = n+1: the download of that ticker failed, all NaN)
CloseColumns(n, quote) ==
    {[d \in 1..n |-> IF d < first THEN NaN ELSE Int2Float(quote[d])] :
        first \in 1..(n + 1)}

\* a frame: ordered column labels, ordered index, one value per cell
Frame(columns, index, val) == [columns |-> columns, index |-> index, val |-> val]

\* the ticker-keyed tables (MultiIndex columns) holding the columns `cols`
KeyedTables(cols) ==
    UNION {{[keyed |-> TRUE,
             close |-> Frame(cols, Dates(n),
                             [c \in Range(cols) |-> col[c]])] :
                col \in UNION {[Range(cols) -> CloseColumns(n, q)] : q \in Quotes(n)}} :
                    n \in 1..NumDates}

\* the tables of a single instrument without a ticker level: data['Close'] is a Series
FlatTables ==
    UNION {{[keyed |-> FALSE,
             close |-> Frame(<<"Close">>, Dates(n), [c \in {"Close"} |-> col])] :
                col \in UNION {CloseColumns(n, q) : q \in Quotes(n)}} :
                    n \in 1..NumDates}

\* what yf.download(tickers) can deliver that is not empty
Downloads(tks) ==
    UNION {KeyedTables(cols) : cols \in SubSeqs(tks) \ {<<>>}}
        \cup (IF Len(tks) = 1 THEN FlatTables ELSE {})

\* the ticker lists of a run (--tickers, default config.TICKERS)
TickerLists == {SubSeq(Universe, 1, k) : k \in 1..Len(Universe)}

----------------------------------------------------------------------------
(* transform_data *)

\* data['Close'] and, for one ticker, .to_frame(name=tickers[0]);
\* a DataFrame has no to_frame: AttributeError
adj_close(d, tks) ==
    IF Len(tks) = 1
    THEN IF d.keyed THEN None
         ELSE Some(Frame(<<tks[1]>>, d.close.index,
                         [c \in {tks[1]} |-> d.close.val["Close"]]))
    ELSE Some(d.close)

\* DataFrame.pct_change(): price[t] / price[t-1] - 1, NaN on the first row and
\* wherever one of the two prices is missing (its forward fill of missing
\* prices has nothing to fill: a column's missing prices all lead)
pct_change(f) ==
    Frame(f.columns, f.index,
          [c \in Range(f.columns) |->
              [d \in DOMAIN f.index |->
                  IF d = 1 THEN NaN
                  ELSE FSub(FDiv(f.val[c][d], f.val[c][d - 1]), Int2Float(1))]])

\* the rows dropna() keeps: those without a NaN in any column
RowComplete(f, d) == \A c \in Range(f.columns) : ~IsNaN(f.val[c][d])

\* DataFrame.dropna(): positions (into f.index) of the rows kept
dropna(f) == SelectSeq(f.index, LAMBDA d : RowComplete(f, d))

\* melt(id_vars=['Date'], value_vars=...): one row per (value_var, kept date),
\* value_var by value_var; KeyError when a value_var is no column
melt(f, kept, value_vars) ==
    IF \E v \in Range(value_vars) : v \notin Range(f.columns) THEN None
    ELSE Some(Flatten([i \in DOMAIN value_vars |->
                 [k \in DOMAIN kept |->
                     [date |-> f.index[kept[k]], ticker |-> value_vars[i],
                      daily_return |-> f.val[value_vars[i]][kept[k]]]]]))

\* value_vars = tickers, or the frame's own column when it has exactly one
ValueVars(f, tks) == IF Len(f.columns) = 1 THEN f.columns ELSE tks

transform_data(d, tks) ==
    LET close == adj_close(d, tks)
    IN  IF close.none THEN None
        ELSE LET daily_returns == pct_change(close.v)
             IN  melt(daily_returns, dropna(daily_returns),
                      ValueVars(daily_returns, tks))

----------------------------------------------------------------------------
(* The ETL scripts: main() of etl_yfinance_postgres.py and of etl_to_csv.py *)

NoFrame == [columns |-> <<>>, rows |-> <<>>, index |-> <<>>, val |-> <<>>]
NoCsv == [exists |-> FALSE, rows |-> <<>>]
NoResults == [c \in {} |-> 0]

\* the sink step of each script
SinkCall == IF program = "etl_postgres" THEN "load_data" ELSE "save_to_csv"

\* main: `if data is not None:` guards transform_data
AfterExtract(d) == IF d.none THEN "done" ELSE "transform"

\* a main without the second guard: it hands None to the sink
AlwaysSink(t) == "sink"

\* main: `if transformed_data is not None:` guards load_data / save_to_csv
AfterTransform(t) == IF t.none THEN "done" ELSE "sink"

\* statements run on an autocommit connection: what was executed stays
NoRollback(committed, tx) == tx

\* what the table holds once a failed transaction is over: `with connection.begin()`
\* rolls back, the committed rows stay
Rollback(committed, tx) == committed

\* what a transaction leaves when its block ends without an exception: commit
Commit(committed, tx) == tx

InitETL ==
    /\ program \in {"etl_postgres", "etl_csv"}
    /\ pc = "start"
    /\ runs = 0
    /\ tickers = <<>>
    /\ db_password = TRUE
    /\ data = None
    /\ transformed_data = None
    /\ calls = <<>>
    /\ tableExists = FALSE
    /\ table = <<>>
    /\ txTable = <<>>
    /\ tableAtCall = <<>>
    /\ outcome = ""
    /\ csvFile = NoCsv
    /\ df = NoFrame
    /\ df_pivot = NoFrame
    /\ results = NoResults

\* main: get_args()
GetArgs ==
    /\ program \in {"etl_postgres", "etl_csv"}
    /\ pc = "start"
    /\ runs < MaxRuns
    /\ runs' = runs + 1
    /\ tickers' \in TickerLists
    /\ db_password' \in (IF program = "etl_postgres" THEN BOOLEAN ELSE {TRUE})
    /\ data' = None
    /\ transformed_data' = None
    /\ calls' = <<>>
    /\ outcome' = ""
    /\ pc' = "extract"
    /\ UNCHANGED <<program, tableExists, table, txTable, tableAtCall, csvFile>>
    /\ UNCHANGED analysisVars

\* extract_data: the download holds rows
ExtractData ==
    /\ pc = "extract"
    /\ \E d \in Downloads(tickers) : data' = Some(d)
    /\ calls' = Append(calls, "extract_data")
    /\ pc' = AfterExtract(data')
    /\ UNCHANGED <<program, runs, tickers, db_password, transformed_data,
                   tableExists, table, txTable, tableAtCall, outcome, csvFile>>
    /\ UNCHANGED analysisVars

\* extract_data: data.empty, or yf.download raised: None
ExtractNothing ==
    /\ pc = "extract"
    /\ data' = None
    /\ calls' = Append(calls, "extract_data")
    /\ pc' = AfterExtract(data')
    /\ UNCHANGED <<program, runs, tickers, db_password, transformed_data,
                   tableExists, table, txTable, tableAtCall, outcome, csvFile>>
    /\ UNCHANGED analysisVars

TransformData ==
    /\ pc = "transform"
    /\ transformed_data' = transform_data(data.v, tickers)
    /\ calls' = Append(calls, "transform_data")
    /\ pc' = AfterTransform(transformed_data')
    /\ UNCHANGED <<program, runs, tickers, db_password, data,
                   tableExists, table, txTable, tableAtCall, outcome, csvFile>>
    /\ UNCHANGED analysisVars

\* load_data is entered; without a password it returns at once
LoadData ==
    /\ program = "etl_postgres"
    /\ pc = "sink"
    /\ calls' = Append(calls, "load_data")
    /\ tableAtCall' = table
    /\ pc' = IF db_password THEN "create_table" ELSE "done"
    /\ outcome' = IF db_password THEN outcome ELSE "error"
    /\ UNCHANGED <<program, runs, tickers, db_password, data, transformed_data,
                   tableExists, table, txTable, csvFile>>
    /\ UNCHANGED analysisVars

\* create_engine and create_table_if_not_exists, in a transaction of its own
CreateTable ==
    /\ pc = "create_table"
    /\ \/ tableExists' = TRUE /\ pc' = "connect" /\ outcome' = outcome
       \/ tableExists' = tableExists /\ pc' = "done" /\ outcome' = "error"
    /\ UNCHANGED <<program, runs, tickers, db_password, data, transformed_data, calls,
                   table, txTable, tableAtCall, csvFile>>
    /\ UNCHANGED analysisVars

\* engine.connect() and connection.begin()
Connect ==
    /\ pc = "connect"
    /\ \/ txTable' = table /\ pc' = "truncate" /\ outcome' = outcome
       \/ txTable' = txTable /\ pc' = "done" /\ outcome' = "error"
    /\ UNCHANGED <<program, runs, tickers, db_password, data, transformed_data, calls,
                   tableExists, table, tableAtCall, csvFile>>
    /\ UNCHANGED analysisVars

\* TRUNCATE TABLE ... RESTART IDENTITY inside the transaction
Truncate ==
    /\ pc = "truncate"
    /\ \/ txTable' = <<>> /\ pc' = "to_sql"
       \/ txTable' = txTable /\ pc' = "failed"
    /\ UNCHANGED <<program, runs, tickers, db_password, data, transformed_data, calls,
                   tableExists, table, tableAtCall, outcome, csvFile>>
    /\ UNCHANGED analysisVars

\* df.to_sql(if_exists='append'): every row, or an exception after some of them
ToSql ==
    /\ pc = "to_sql"
    /\ \/ /\ ~transformed_data.none
          /\ txTable' = txTable \o transformed_data.v
          /\ pc' = "commit"
       \/ /\ ~transformed_data.none
          /\ \E k \in {0} \cup 0..(Len(transformed_data.v) - 1) :
                txTable' = txTable \o SubSeq(transformed_data.v, 1, k)
          /\ pc' = "failed"
       \/ /\ transformed_data.none                     \* None has no to_sql
          /\ txTable' = txTable
          /\ pc' = "failed"
    /\ UNCHANGED <<program, runs, tickers, db_password, data, transformed_data, calls,
                   tableExists, table, tableAtCall, outcome, csvFile>>
    /\ UNCHANGED analysisVars

\* the end of `with connection.begin()`: commit, or the commit fails
EndTransaction ==
    /\ pc = "commit"
    /\ \/ table' = Commit(table, txTable) /\ outcome' = "completed"
       \/ table' = Rollback(table, txTable) /\ outcome' = "error"
    /\ txTable' = <<>>
    /\ pc' = "done"
    /\ UNCHANGED <<program, runs, tickers, db_password, data, transformed_data, calls,
                   tableExists, tableAtCall, csvFile>>
    /\ UNCHANGED analysisVars

\* an exception leaves `with connection.begin()`; load_data's except prints it
FailTransaction ==
    /\ pc = "failed"
    /\ table' = Rollback(table, txTable)
    /\ outcome' = "error"
    /\ txTable' = <<>>
    /\ pc' = "done"
    /\ UNCHANGED <<program, runs, tickers, db_password, data, transformed_data, calls,
                   tableExists, tableAtCall, csvFile>>
    /\ UNCHANGED analysisVars

\* save_to_csv: df.to_csv writes the file, or raises before writing (caught)
SaveToCsv ==
    /\ program = "etl_csv"
    /\ pc = "sink"
    /\ calls' = Append(calls, "save_to_csv")
    /\ \/ /\ ~transformed_data.none
          /\ csvFile' = [exists |-> TRUE, rows |-> transformed_data.v]
          /\ outcome' = "completed"
       \/ csvFile' = csvFile /\ outcome' = "error"
    /\ pc' = "done"
    /\ UNCHANGED <<program, runs, tickers, db_password, data, transformed_data,
                   tableExists, table, txTable, tableAtCall>>
    /\ UNCHANGED analysisVars

\* the script is run again
RunAgain ==
    /\ program \in {"etl_postgres", "etl_csv"}
    /\ pc = "done"
    /\ runs < MaxRuns
    /\ pc' = "start"
    /\ UNCHANGED <<program, runs, csvFile>>
    /\ UNCHANGED etlVars
    /\ UNCHANGED analysisVars

NextETL ==
    \/ GetArgs \/ ExtractData \/ ExtractNothing \/ TransformData
    \/ LoadData \/ CreateTable \/ Connect \/ Truncate \/ ToSql
    \/ EndTransaction \/ FailTransaction \/ SaveToCsv \/ RunAgain

SpecETL == InitETL /\ [][NextETL]_vars

----------------------------------------------------------------------------
(* Properties of the ETL scripts *)

Transformed == "transform_data" \in Range(calls)

\* the Close column of ticker t in the downloaded table (all NaN when absent)
PriceColumn(d, tks, t) ==
    IF ~d.keyed THEN d.close.val["Close"]
    ELSE IF t \in Range(d.close.columns) THEN d.close.val[t]
    ELSE [i \in DOMAIN d.close.index |-> NaN]

HasPrice(col, i) == ~IsNaN(col[i])
HasPriorPrice(col, i) == i > 1 /\ HasPrice(col, i) /\ HasPrice(col, i - 1)
RowsOf(rows, t) == {k \in DOMAIN rows : rows[k].ticker = t}

\* C1: transform_data emits a record for (d, t) exactly when t has a price on d
\* and on the preceding date, so t has (dates with a price) - 1 records whatever
\* the other tickers' dates are, and no record is the first date's
C1_RecordPerDefinedReturn ==
    (Transformed /\ ~transformed_data.none) =>
        \A t \in Range(tickers) :
            LET col == PriceColumn(data.v, tickers, t)
                rows == transformed_data.v
                priced == {i \in DOMAIN col : HasPrice(col, i)}
            IN  /\ \A i \in DOMAIN col :
                      (\E k \in RowsOf(rows, t) : rows[k].date = i)
                          <=> HasPriorPrice(col, i)
                /\ priced # {} =>
                      Cardinality(RowsOf(rows, t)) = Cardinality(priced) - 1

\* the requested tickers without a column in the price table
Uncovered(d, tks) == {t \in Range(tks) : t \notin Range(d.close.columns)}

\* the rows the table's own columns give, each melted
RowsOfColumns(d) ==
    LET r == pct_change(d.close) IN melt(r, dropna(r), d.close.columns).v

\* C4: with two or more tickers requested and one of them without a column,
\* transform_data does not fail, that ticker has no record and every other
\* ticker has all the records its column gives
C4_PartialCoverageNonFatal ==
    (Transformed /\ Len(tickers) >= 2 /\ Uncovered(data.v, tickers) # {}) =>
        /\ ~transformed_data.none
        /\ \A t \in Range(tickers) :
              {transformed_data.v[k] : k \in RowsOf(transformed_data.v, t)}
                = {RowsOfColumns(data.v)[k] : k \in RowsOf(RowsOfColumns(data.v), t)}

NoRecords(t) == ~t.none /\ t.v = <<>>

\* C5: a run whose transform produced zero records does not write the store:
\* the table's rows stay what they were
C5_EmptyTransformNotPersisted ==
    [][(Transformed /\ NoRecords(transformed_data)) => table' = table]_vars

\* C3: from the call of load_data on, whatever step fails, the table holds the
\* rows it held at the call or, once load_data completed, exactly the new rows
C3_FullRefreshAtomic ==
    ("load_data" \in Range(calls)) =>
        /\ outcome # "completed" => table = tableAtCall
        /\ outcome = "completed" => table = transformed_data.v

\* a bulk insert failed on a table that held an earlier run's rows
C3_FailedLoadWitness ==
    /\ "load_data" \in Range(calls)
    /\ pc = "done"
    /\ outcome = "error"
    /\ db_password
    /\ tableAtCall # <<>>
    /\ ~transformed_data.none
    /\ transformed_data.v # <<>>
    /\ transformed_data.v # tableAtCall

IsPrefix(s, t) == Len(s) <= Len(t) /\ s = SubSeq(t, 1, Len(s))

StepsInOrder ==
    /\ IsPrefix(calls, <<"extract_data", "transform_data", SinkCall>>)
    /\ Transformed => ~data.none
    /\ SinkCall \in Range(calls) => ~transformed_data.none

StoreUntouched ==
    /\ table' = table
    /\ tableExists' = tableExists
    /\ csvFile' = csvFile

\* C9: the steps run in the order extract, transform, load, each only when the
\* one before returned data; a run that did not reach the load leaves the store
\* as it was
C9_StepsInOrder ==
    /\ []StepsInOrder
    /\ [][SinkCall \notin Range(calls') => StoreUntouched]_vars

\* transform_data returned None on a store holding rows: the run stopped there
C9_TransformFailedWitness ==
    /\ pc = "done"
    /\ calls = <<"extract_data", "transform_data">>
    /\ transformed_data.none
    /\ table # <<>>

----------------------------------------------------------------------------
(* analysis_and_report.py: the data it reads *)

\* the daily returns a CSV cell can hold
Returns == {<<1, 10>>, <<-1, 10>>}

\* the tickers of a CSV, in the column order pivot() gives them (sorted)
CsvTickers == <<"NVDA", "QQQ">>

\* the rows of one ticker, dates ascending, one per date it has a return on
TickerRows(cell, t) ==
    LET ds == SelectSeq(Dates(CsvDates), LAMBDA d : ~IsNaN(cell[t][d]))
    IN  [k \in DOMAIN ds |->
            [date |-> ds[k], ticker |-> t, daily_return |-> cell[t][ds[k]]]]

\* the rows of one date, one per ticker that has a return on it
DateRows(cell, d) ==
    LET ts == SelectSeq(CsvTickers, LAMBDA t : ~IsNaN(cell[t][d]))
    IN  [k \in DOMAIN ts |->
            [date |-> d, ticker |-> ts[k], daily_return |-> cell[ts[k]][d]]]

\* a long-form file: ticker by ticker (as melt writes it) or date by date
LongRows(cell, order) ==
    IF order = "by_ticker"
    THEN Flatten([i \in DOMAIN CsvTickers |-> TickerRows(cell, CsvTickers[i])])
    ELSE Flatten([d \in 1..CsvDates |-> DateRows(cell, d)])

CsvFiles ==
    {NoCsv} \cup
    {[exists |-> TRUE, rows |-> LongRows(cell, order)] :
        cell \in [Range(CsvTickers) -> [1..CsvDates -> Returns \cup {NaN}]],
        order \in {"by_ticker", "by_date"}}

----------------------------------------------------------------------------
(* analysis_and_report.py: pandas reductions *)

RECURSIVE Sum(_)
Sum(xs) == IF xs = <<>> THEN Int2Float(0) ELSE FAdd(Head(xs), Sum(Tail(xs)))

\* Series.mean(): NaN for no observation
Mean(xs) ==
    IF xs = <<>> THEN NaN ELSE FDiv(Sum(xs), Int2Float(Len(xs)))

\* Series.var(ddof=1), the square of Series.std(): NaN below two observations
Var(xs) ==
    IF Len(xs) < 2 THEN NaN
    ELSE LET m == Mean(xs)
             sq == [i \in DOMAIN xs |-> FMul(FSub(xs[i], m), FSub(xs[i], m))]
         IN  FDiv(Sum(sq), Int2Float(Len(xs) - 1))

Sorted(xs) == SortSeq(xs, FLess)

\* Series.quantile(k/4), linear interpolation between the two nearest ranks
Quartile(xs, k) ==
    IF xs = <<>> THEN NaN
    ELSE LET s == Sorted(xs)
             pos == (Len(xs) - 1) * k
             lo == (pos \div 4) + 1
             frac == Rat(pos % 4, 4)
         IN  IF pos % 4 = 0 THEN s[lo]
             ELSE FAdd(s[lo], FMul(frac, FSub(s[lo + 1], s[lo])))

\* Series.describe(); std is kept squared
Describe(xs) ==
    [count |-> Len(xs), mean |-> Mean(xs), std2 |-> Var(xs),
     min |-> Quartile(xs, 0), q25 |-> Quartile(xs, 1), q50 |-> Quartile(xs, 2),
     q75 |-> Quartile(xs, 3), max |-> Quartile(xs, 4)]

\* df.groupby('ticker'): the group keys
GroupKeys(d) == {d.rows[k].ticker : k \in DOMAIN d.rows}

\* df.groupby('ticker')['daily_return']: one group's values, in row order
Group(d, t) ==
    LET ks == SelectSeq([k \in DOMAIN d.rows |-> k], LAMBDA k : d.rows[k].ticker = t)
    IN  [i \in DOMAIN ks |-> d.rows[ks[i]].daily_return]

\* the value a function returns, or the exception that left it
Returned(v, entries) ==
    IF Raised \in entries THEN [raised |-> TRUE] ELSE [raised |-> FALSE, v |-> v]

----------------------------------------------------------------------------
(* analysis_and_report.py: the calculate_* functions *)

calculate_statistics(d) ==
    LET stats == [t \in GroupKeys(d) |-> Describe(Group(d, t))]
    IN  Returned(stats, UNION {{stats[t].mean, stats[t].std2, stats[t].q25,
                                stats[t].q50, stats[t].q75} : t \in GroupKeys(d)})

\* one running product over the whole column, row after row
CumProdRows(d) ==
    LET RECURSIVE prod(_)
        prod(k) == IF k = 0 THEN Int2Float(1)
                   ELSE FMul(prod(k - 1), FAdd(Int2Float(1), d.rows[k].daily_return))
    IN  [k \in DOMAIN d.rows |-> FSub(prod(k), Int2Float(1))]

\* df['cumulative_return'] = (1 + df['daily_return']).cumprod() - 1; return df:
\* the frame it was given, with one more column
calculate_cumulative_returns(d) ==
    LET cum == CumProdRows(d)
    IN  [columns |-> IF "cumulative_return" \in Range(d.columns) THEN d.columns
                     ELSE Append(d.columns, "cumulative_return"),
         rows |-> [k \in DOMAIN d.rows |->
                      [date |-> d.rows[k].date, ticker |-> d.rows[k].ticker,
                       daily_return |-> d.rows[k].daily_return,
                       cumulative_return |-> cum[k]]]]

\* std * sqrt(252), kept squared: var * 252
calculate_annualized_volatility(d) ==
    LET vol2 == [t \in GroupKeys(d) |-> FMul(Var(Group(d, t)), Int2Float(TradingDays))]
    IN  Returned(vol2, {vol2[t] : t \in GroupKeys(d)})

\* the square of x, with the sign of x
SignedSquare(x) == IF x[1] < 0 THEN FSub(Int2Float(0), FMul(x, x)) ELSE FMul(x, x)

\* (mean * 252 - risk_free_rate) / (std * sqrt(252)), kept as its signed square:
\* the numerator's signed square over var * 252
calculate_sharpe_ratio(d, risk_free_rate) ==
    LET mean_return == [t \in GroupKeys(d) |->
                           FMul(Mean(Group(d, t)), Int2Float(TradingDays))]
        std_dev2 == [t \in GroupKeys(d) |->
                           FMul(Var(Group(d, t)), Int2Float(TradingDays))]
        sharpe2 == [t \in GroupKeys(d) |->
                      FDiv(SignedSquare(FSub(mean_return[t], risk_free_rate)),
                           std_dev2[t])]
    IN  Returned(sharpe2, {sharpe2[t] : t \in GroupKeys(d)})

----------------------------------------------------------------------------
(* analysis_and_report.py: the pivot and what main() computes on it *)

\* df.pivot(index='date', columns='ticker', values='daily_return'): one row per
\* date of the file, one column per ticker, NaN where the file has no record
pivot(d) ==
    LET index == SelectSeq(Dates(CsvDates),
                           LAMBDA x : \E k \in DOMAIN d.rows : d.rows[k].date = x)
        columns == SelectSeq(CsvTickers, LAMBDA t : t \in GroupKeys(d))
        Cell(t, x) ==
            IF \E k \in DOMAIN d.rows : d.rows[k].date = x /\ d.rows[k].ticker = t
            THEN (CHOOSE r \in Range(d.rows) : r.date = x /\ r.ticker = t).daily_return
            ELSE NaN
    IN  Frame(columns, index,
              [t \in Range(columns) |-> [i \in DOMAIN index |-> Cell(t, index[i])]])

\* DataFrame.fillna(0)
fillna0(f) ==
    Frame(f.columns, f.index,
          [t \in Range(f.columns) |->
              [i \in DOMAIN f.index |-> IF IsNaN(f.val[t][i]) THEN Int2Float(0)
                                        ELSE f.val[t][i]]])

\* nancorr's pass over the rows for one pair of columns: a row counts only
\* when both cells hold a value
PairSums(f, a, b) ==
    LET RECURSIVE acc(_)
        acc(i) ==
            IF i = 0
            THEN [n |-> 0, sx |-> Int2Float(0), sy |-> Int2Float(0),
                  sxx |-> Int2Float(0), syy |-> Int2Float(0), sxy |-> Int2Float(0)]
            ELSE LET p == acc(i - 1)
                     x == f.val[a][i]
                     y == f.val[b][i]
                 IN  IF IsNaN(x) \/ IsNaN(y) THEN p
                     ELSE [n |-> p.n + 1, sx |-> FAdd(p.sx, x), sy |-> FAdd(p.sy, y),
                           sxx |-> FAdd(p.sxx, FMul(x, x)),
                           syy |-> FAdd(p.syy, FMul(y, y)),
                           sxy |-> FAdd(p.sxy, FMul(x, y))]
    IN  acc(Len(f.index))

\* Pearson's r from the sums, kept as its signed square; NaN when a sum of
\* squared deviations is zero (one observation, a constant column)
PearsonOfSums(p) ==
    LET n == Int2Float(p.n)
        cxy == FSub(FMul(n, p.sxy), FMul(p.sx, p.sy))
        cxx == FSub(FMul(n, p.sxx), FMul(p.sx, p.sx))
        cyy == FSub(FMul(n, p.syy), FMul(p.sy, p.sy))
    IN  IF p.n < 1 \/ cxx[1] = 0 \/ cyy[1] = 0 THEN NaN
        ELSE FDiv(SignedSquare(cxy), FMul(cxx, cyy))

\* DataFrame.corr(): pairwise over the columns
corr(f) ==
    [a \in Range(f.columns) |->
        [b \in Range(f.columns) |-> PearsonOfSums(PairSums(f, a, b))]]

\* a correlation that fills the gaps with zero first
calculate_correlation_filled(df_pivot_) == corr(fillna0(df_pivot_))

calculate_correlation(df_pivot_) == corr(df_pivot_)

\* (1 + df_pivot).cumprod() - 1: per column, a NaN cell stays NaN and is skipped
CumProdPivot(f) ==
    LET RECURSIVE prod(_, _)
        prod(t, i) ==
            IF i = 0 THEN Int2Float(1)
            ELSE IF IsNaN(f.val[t][i]) THEN prod(t, i - 1)
            ELSE FMul(prod(t, i - 1), FAdd(Int2Float(1), f.val[t][i]))
    IN  Frame(f.columns, f.index,
              [t \in Range(f.columns) |->
                  [i \in DOMAIN f.index |->
                      IF IsNaN(f.val[t][i]) THEN NaN
                      ELSE FSub(prod(t, i), Int2Float(1))]])

\* df_pivot.rolling(window).std() * sqrt(252), kept squared: the variance of the
\* `window` rows ending at row i, NaN unless all of them hold a value
RollingVolatility(f, window) ==
    Frame(f.columns, f.index,
          [t \in Range(f.columns) |->
              [i \in DOMAIN f.index |->
                  IF i < window THEN NaN
                  ELSE LET w == [j \in 1..window |-> f.val[t][i - window + j]]
                       IN  IF \E j \in 1..window : IsNaN(w[j]) THEN NaN
                           ELSE FMul(Var(w), Int2Float(TradingDays))]])

----------------------------------------------------------------------------
(* analysis_and_report.py: main() *)

InitAnalysis ==
    /\ program = "analysis"
    /\ pc = "start"
    /\ runs = 0
    /\ tickers = <<>>
    /\ db_password = TRUE
    /\ data = None
    /\ transformed_data = None
    /\ calls = <<>>
    /\ tableExists = FALSE
    /\ table = <<>>
    /\ txTable = <<>>
    /\ tableAtCall = <<>>
    /\ outcome = ""
    /\ csvFile \in CsvFiles
    /\ df = NoFrame
    /\ df_pivot = NoFrame
    /\ results = NoResults

\* main after a call: an exception out of it ends the script
Continue(r, next) == IF r.raised THEN "crashed" ELSE next

\* pd.read_csv, or FileNotFoundError: main returns
ReadCsv ==
    /\ program = "analysis"
    /\ pc = "start"
    /\ IF csvFile.exists
       THEN /\ df' = [columns |-> <<"date", "ticker", "daily_return">>,
                      rows |-> csvFile.rows]
            /\ pc' = "pivot"
       ELSE /\ df' = df
            /\ pc' = "no_file"
    /\ UNCHANGED <<program, runs, csvFile, df_pivot, results>>
    /\ UNCHANGED etlVars

Pivot ==
    /\ pc = "pivot"
    /\ df_pivot' = pivot(df)
    /\ pc' = "stats"
    /\ UNCHANGED <<program, runs, csvFile, df, results>>
    /\ UNCHANGED etlVars

Statistics ==
    /\ pc = "stats"
    /\ results' = results @@ ("stats" :> calculate_statistics(df))
    /\ pc' = Continue(results'["stats"], "volatility")
    /\ UNCHANGED <<program, runs, csvFile, df, df_pivot>>
    /\ UNCHANGED etlVars

Volatility ==
    /\ pc = "volatility"
    /\ results' = results @@ ("volatility" :> calculate_annualized_volatility(df))
    /\ pc' = Continue(results'["volatility"], "sharpe")
    /\ UNCHANGED <<program, runs, csvFile, df, df_pivot>>
    /\ UNCHANGED etlVars

\* calculate_sharpe_ratio(df): risk_free_rate keeps its default 0.0
SharpeRatio ==
    /\ pc = "sharpe"
    /\ results' = results @@ ("sharpe_ratio" :> calculate_sharpe_ratio(df, Int2Float(0)))
    /\ pc' = Continue(results'["sharpe_ratio"], "correlation")
    /\ UNCHANGED <<program, runs, csvFile, df, df_pivot>>
    /\ UNCHANGED etlVars

Correlation ==
    /\ pc = "correlation"
    /\ results' = results @@ ("correlation_matrix" :> calculate_correlation(df_pivot))
    /\ pc' = "cumulative"
    /\ UNCHANGED <<program, runs, csvFile, df, df_pivot>>
    /\ UNCHANGED etlVars

Cumulative ==
    /\ pc = "cumulative"
    /\ results' = results @@ ("df_cumulative" :> CumProdPivot(df_pivot))
    /\ pc' = "rolling"
    /\ UNCHANGED <<program, runs, csvFile, df, df_pivot>>
    /\ UNCHANGED etlVars

Rolling ==
    /\ pc = "rolling"
    /\ results' = results @@ ("rolling_vol" :> RollingVolatility(df_pivot, RollingWindow))
    /\ pc' = "report"
    /\ UNCHANGED <<program, runs, csvFile, df, df_pivot>>
    /\ UNCHANGED etlVars

\* generate_html_report writes the report file
Report ==
    /\ pc = "report"
    /\ pc' = "reported"
    /\ UNCHANGED <<program, runs, csvFile, df, df_pivot, results>>
    /\ UNCHANGED etlVars

\* a caller of the module applies calculate_cumulative_returns to the frame
\* (a second call recomputes the same column)
CumulativeReturns ==
    /\ program = "analysis"
    /\ pc \notin {"start", "no_file", "crashed"}
    /\ "cumulative_return" \notin Range(df.columns)
    /\ df' = calculate_cumulative_returns(df)
    /\ UNCHANGED <<program, pc, runs, csvFile, df_pivot, results>>
    /\ UNCHANGED etlVars

NextAnalysis ==
    \/ ReadCsv \/ Pivot \/ Statistics \/ Volatility \/ SharpeRatio \/ Correlation
    \/ Cumulative \/ Rolling \/ Report \/ CumulativeReturns

SpecAnalysis == InitAnalysis /\ [][NextAnalysis]_vars

----------------------------------------------------------------------------
(* The three scripts *)

Init == InitETL \/ InitAnalysis

Next == NextETL \/ NextAnalysis

Spec == Init /\ [][Next]_vars

----------------------------------------------------------------------------
(* Properties of the analysis *)

Product(xs) ==
    LET RECURSIVE prod(_)
        prod(k) == IF k = 0 THEN Int2Float(1) ELSE FMul(prod(k - 1), xs[k])
    IN  prod(Len(xs))

\* the returns of the ticker of row k on the dates up to row k's, each plus one
OwnGrowth(d, k) ==
    LET ks == SelectSeq([j \in DOMAIN d.rows |-> j],
                        LAMBDA j : /\ d.rows[j].ticker = d.rows[k].ticker
                                   /\ d.rows[j].date <= d.rows[k].date)
    IN  [i \in DOMAIN ks |-> FAdd(Int2Float(1), d.rows[ks[i]].daily_return)]

\* C2: after calculate_cumulative_returns, the cumulative return of every row is
\* the product of (1 + r) over the returns of the row's own ticker up to the
\* row's date, minus 1, whatever the other tickers' rows are
C2_CumulativePerTicker ==
    ("cumulative_return" \in Range(df.columns)) =>
        \A k \in DOMAIN df.rows :
            df.rows[k].cumulative_return
                = FSub(Product(OwnGrowth(df, k)), Int2Float(1))

\* the dates ticker t has a return on, ascending: its own series
OwnDates(d, t) ==
    SelectSeq(Dates(CsvDates),
              LAMBDA x : \E k \in DOMAIN d.rows : d.rows[k].date = x /\ d.rows[k].ticker = t)

\* the position of date x in the pivot's index
IndexOf(f, x) == CHOOSE i \in DOMAIN f.index : f.index[i] = x

\* C6: the rolling volatility of ticker t at position i (from 0) of its own
\* series is defined exactly when i >= window - 1, whatever dates the other
\* tickers add to the pivot
C6_RollingPerTicker ==
    ("rolling_vol" \in DOMAIN results) =>
        \A t \in GroupKeys(df) :
            \A i \in DOMAIN OwnDates(df, t) :
                ~IsNaN(results["rolling_vol"].val[t][IndexOf(df_pivot, OwnDates(df, t)[i])])
                    <=> (i - 1 >= RollingWindow - 1)

\* the dates on which both a and b have a record in the file
Overlap(d, a, b) ==
    SelectSeq(OwnDates(d, a), LAMBDA x : x \in Range(OwnDates(d, b)))

ReturnOn(d, t, x) ==
    (CHOOSE r \in Range(d.rows) : r.date = x /\ r.ticker = t).daily_return

\* Pearson's r (signed square) of two equally long series, from deviations
PearsonOf(xs, ys) ==
    LET mx == Mean(xs)
        my == Mean(ys)
        dx == [i \in DOMAIN xs |-> FSub(xs[i], mx)]
        dy == [i \in DOMAIN ys |-> FSub(ys[i], my)]
        sxy == Sum([i \in DOMAIN xs |-> FMul(dx[i], dy[i])])
        sxx == Sum([i \in DOMAIN xs |-> FMul(dx[i], dx[i])])
        syy == Sum([i \in DOMAIN xs |-> FMul(dy[i], dy[i])])
    IN  IF xs = <<>> \/ sxx[1] = 0 \/ syy[1] = 0 THEN NaN
        ELSE FDiv(SignedSquare(sxy), FMul(sxx, syy))

\* C7: the correlation of a and b is Pearson's r of their returns on exactly
\* the dates where both have one; the other dates do not enter it
C7_PairwiseComplete ==
    ("correlation_matrix" \in DOMAIN results) =>
        \A a \in GroupKeys(df), b \in GroupKeys(df) :
            LET ds == Overlap(df, a, b)
            IN  results["correlation_matrix"][a][b]
                  = PearsonOf([i \in DOMAIN ds |-> ReturnOn(df, a, ds[i])],
                              [i \in DOMAIN ds |-> ReturnOn(df, b, ds[i])])

\* two tickers that share two dates, one of them with a return on a third date,
\* and a correlation that is a number
C7_PartialOverlapWitness ==
    /\ "correlation_matrix" \in DOMAIN results
    /\ GroupKeys(df) = {"NVDA", "QQQ"}
    /\ Len(Overlap(df, "NVDA", "QQQ")) = 2
    /\ Len(OwnDates(df, "NVDA")) = 3
    /\ IsFinite(results["correlation_matrix"]["NVDA"]["QQQ"])

Degenerate(xs) == Len(xs) < 2 \/ \A i \in DOMAIN xs : xs[i] = xs[1]

Calculated == {"stats", "volatility", "sharpe_ratio"} \cap DOMAIN results

\* C8: calculate_statistics, calculate_annualized_volatility and
\* calculate_sharpe_ratio never raise: a ticker with one observation has an
\* undefined std, volatility and Sharpe ratio, one with equal returns an infinite
\* or undefined Sharpe ratio, every other ticker of the same file has numbers,
\* and an empty file gives empty results
C8_DegenerateNeverRaises ==
    /\ pc # "crashed"
    /\ \A name \in Calculated :
          /\ ~results[name].raised
          /\ DOMAIN results[name].v = GroupKeys(df)
          /\ \A t \in GroupKeys(df) :
                LET xs == Group(df, t)
                    r == results[name].v[t]
                IN  CASE name = "stats" ->
                            /\ r.count = Len(xs)
                            /\ IsFinite(r.mean)
                            /\ (Len(xs) < 2 <=> IsNaN(r.std2))
                            /\ (Len(xs) >= 2 => IsFinite(r.std2))
                      [] name = "volatility" ->
                            /\ (Len(xs) < 2 <=> IsNaN(r))
                            /\ (~Degenerate(xs) => IsFinite(r) /\ r[1] > 0)
                      [] name = "sharpe_ratio" ->
                            /\ (Degenerate(xs) <=> (IsNaN(r) \/ IsInf(r)))
                            /\ (Len(xs) < 2 => IsNaN(r))
                            /\ (~Degenerate(xs) => IsFinite(r))

\* a file with a zero-variance ticker (infinite Sharpe ratio) beside one that has
\* a variance (a number)
C8_ZeroVarianceWitness ==
    /\ "sharpe_ratio" \in DOMAIN results
    /\ ~results["sharpe_ratio"].raised
    /\ GroupKeys(df) = {"NVDA", "QQQ"}
    /\ Len(Group(df, "NVDA")) >= 2
    /\ Degenerate(Group(df, "NVDA"))
    /\ IsInf(results["sharpe_ratio"].v["NVDA"])
    /\ IsFinite(results["sharpe_ratio"].v["QQQ"])

\* C10: no analytics call changes the dataset it is given: from the moment the
\* file is read, df keeps its rows and its columns
C10_DatasetNeverMutated ==
    [][pc # "start" => df' = df]_vars

====
